---------------------------- MODULE Spec2Model ----------------------------
(***************************************************************************)
(* Model of main.py of llm-poemer: one process invocation of the bot.      *)
(* The process reads argv and the environment, builds the Application,     *)
(* fetches forum posts, asks the generation backend for a theme and then   *)
(* for a poem, and hands the poem to the chat sink and the social sink.    *)
(*                                                                         *)
(* Python str values are modelled as sequences of Unicode code points, so  *)
(* len(), concatenation and f-string formatting are computed, not assumed. *)
(* Third-party services (forum API, generation API, chat API, social API)  *)
(* are the environment: each call either raises or returns one of a small  *)
(* set of responses.                                                       *)
(***************************************************************************)
EXTENDS Integers, Sequences, FiniteSets, TLC

(* ------------------------------ bounds -------------------------------- *)

\* largest number of posts the forum API hands back in one listing
MaxPosts == 2

(* ------------------------- program constants -------------------------- *)

\* main.py:215  limit when argv has no second argument
DefaultLimit == 3

\* main.py:168  length above which the social post is skipped
PoemLimit == 140

\* requests: the status code send_message accepts (main.py:113)
StatusOK == 200

\* sys.exit(1) (main.py:220)
UsageExitCode == 1

(* ------------------------- string literals ---------------------------- *)

LF == 10

\* main.py:34 "taitoru: " (title label)
TitleLabel == <<12479, 12452, 12488, 12523, 58, 32>>
\* main.py:34 "\nURL: "
UrlLabel == <<10, 85, 82, 76, 58, 32>>
\* main.py:34 "\n toukou nichiji: " (posted-at label)
DateLabel == <<10, 25237, 31295, 26085, 26178, 58, 32>>
\* main.py:35 "sukoa: " (score label)
ScoreLabel == <<12473, 12467, 12450, 58, 32>>
\* main.py:35 "\n komento suu: " (comment count label)
NumCommentsLabel == <<10, 12467, 12513, 12531, 12488, 25968, 58, 32>>
\* main.py:35 "\n honbun:\n" (body label)
BodyLabel == <<10, 26412, 25991, 58, 10>>
\* main.py:42 "komento risuto:\n" (comment list label)
CommentListLabel == <<12467, 12513, 12531, 12488, 12522, 12473, 12488, 58, 10>>
\* main.py:43 block terminator "\n\n"
BlockEnd == <<10, 10>>

\* main.py:90 fixed message of the cohere call
CohereMessage == <<25351, 31034, 12395, 24467, 12387, 12390, 12367, 12384, 12373, 12356>>
\* main.py:116 prefix of the chat sink's diagnostic
SlackErrorPrefix == <<12456, 12521, 12540, 12364, 30330, 29983, 12375, 12414, 12375, 12383, 58, 32>>
\* main.py:165 header message of the chat thread
PoemHeader == <<20170, 26085, 12398, 12509, 12456, 12512>>
\* main.py:169 message printed when the social post is skipped
SkipMessage == <<49, 52, 48, 25991, 23383, 12434, 36229, 12360, 12427, 12383, 12417, 12473, 12461, 
     12483, 12503>>
\* main.py:171 hashtag suffix of the social post
HashtagSuffix == <<10, 35, 12509, 12456, 12512, 32, 35, 112, 101, 111, 109>>
\* main.py:219 usage message
UsageMessage == <<12509, 12456, 12512, 12398, 12486, 12540, 12510, 12434, 12467, 12510, 12531, 12489, 
     12521, 12452, 12531, 24341, 25968, 12392, 12375, 12390, 25351, 23450, 12375, 12390, 
     12367, 12384, 12373, 12356, 12290>>
\* main.py:178-184 system instruction of the theme-extraction prompt
ThemeSystemContent ==
  <<10, 12509, 12456, 12512, 12434, 20316, 25104, 12377, 12427, 12383, 12417, 12398, 
     12486, 12540, 12510, 12434, 25277, 20986, 12375, 12414, 12377, 12290, 10, 27425, 
     12398, 25991, 31456, 12363, 12425, 12509, 12456, 12512, 12398, 12486, 12540, 12510, 
     12392, 12394, 12426, 12381, 12358, 12394, 21336, 35486, 12420, 12501, 12524, 12540, 
     12474, 12434, 35373, 23450, 12375, 12390, 12367, 12384, 12373, 12356, 12290, 10, 
     12486, 12540, 12510, 12399, 12289, 21336, 35486, 19968, 35486, 12420, 12289, 12501, 
     12524, 12540, 12474, 12289, 12354, 12427, 12356, 12399, 12289, 12300, 21336, 35486, 
     65, 12301, 12392, 12300, 21336, 35486, 66, 12301, 12398, 12424, 12358, 12394, 
     32068, 12415, 21512, 12431, 12379, 12391, 12418, 27083, 12356, 12414, 12379, 12435, 
     12290, 10, 25216, 34899, 30340, 12394, 12527, 12540, 12489, 12420, 23554, 38272, 
     29992, 35486, 12289, 22266, 26377, 21517, 35422, 12394, 12393, 12399, 20778, 20808, 
     12375, 12390, 12486, 12540, 12510, 12395, 21547, 12417, 12390, 12367, 12384, 12373, 
     12356, 12290, 10, 12486, 12540, 12510, 12399, 19968, 12388, 12384, 12369, 36984, 
     23450, 12375, 12390, 12367, 12384, 12373, 12356, 12290, 10>>
\* main.py:193-206 system instruction of the poem prompt
PoemSystemContent ==
  <<10, 30701, 12356, 12509, 12456, 12512, 12434, 22519, 31558, 12375, 12414, 12377, 
     12290, 10, 24517, 12378, 12289, 26085, 26412, 35486, 12391, 32, 49, 52, 48, 32, 
     25991, 23383, 12395, 21454, 12417, 12390, 12367, 12384, 12373, 12356, 12290, 10, 
     10, 35, 35, 32, 12523, 12540, 12523, 10, 10, 42, 32, 12486, 12540, 12510, 12364, 
     19982, 12360, 12425, 12428, 12394, 12363, 12387, 12383, 22580, 21512, 12399, 12289, 
     12486, 12540, 12510, 12434, 35373, 23450, 12375, 12414, 12377, 12290, 12300, 12295, 
     12295, 12301, 12392, 12300, 10005, 10005, 12301, 12398, 12424, 12358, 12394, 12486, 
     12540, 12510, 12434, 35373, 23450, 12375, 12390, 12367, 12384, 12373, 12356, 12290, 
     12381, 12398, 22580, 21512, 12289, 12394, 12427, 12409, 12367, 38306, 36899, 24615, 
     12398, 23569, 12394, 12356, 24847, 22806, 24615, 12398, 12354, 12427, 32068, 12415, 
     21512, 12431, 12379, 12398, 21336, 35486, 12364, 26395, 12414, 12375, 12356, 12391, 
     12377, 12290, 10, 42, 32, 38263, 12356, 25991, 31456, 12364, 19982, 12360, 12425, 
     12428, 12383, 22580, 21512, 12399, 12289, 12381, 12371, 12363, 12425, 12405, 12373, 
     12431, 12375, 12356, 12486, 12540, 12510, 12434, 25277, 20986, 12375, 12414, 12377, 
     12290, 10, 42, 32, 12509, 12456, 12512, 26412, 25991, 12395, 12399, 12289, 12486, 
     12540, 12510, 12395, 12388, 12356, 12390, 12398, 28145, 12356, 27934, 23519, 12420, 
     12289, 37613, 12356, 35222, 28857, 12289, 24847, 22806, 24615, 12398, 12354, 12427, 
     30330, 24819, 12434, 24517, 12378, 30427, 12426, 36796, 12435, 12391, 12367, 12384, 
     12373, 12356, 12290, 10, 42, 32, 12486, 12540, 12510, 12434, 25991, 38957, 12395, 
     20351, 29992, 12375, 12394, 12356, 12391, 12367, 12384, 12373, 12356, 12290, 10, 
     42, 32, 49, 52, 48, 32, 25991, 23383, 12395, 21454, 12417, 12414, 12377, 12290, 10, 
     42, 32, 42, 42, 36820, 20107, 12399, 23436, 25104, 12375, 12383, 25991, 31456, 
     12398, 12415, 12434, 36820, 12375, 12414, 12377, 12290, 42, 42, 10, 42, 32, 42, 42, 
     12486, 12540, 12510, 12420, 12509, 12456, 12512, 12398, 12479, 12452, 12488, 12523, 
     12399, 32118, 23550, 12395, 36820, 31572, 12395, 21547, 12417, 12414, 12379, 12435, 
     42, 42, 10>>

(* --------------------------- str helpers ------------------------------ *)

\* Python's None (os.getenv of an unset variable, a missing thread_ts)
None == "<None>"

\* truth value of an os.getenv result: None and "" are falsy
Truthy(v) == v # None /\ v # ""

RECURSIVE NatToStr(_)
\* str(n) for n >= 0: decimal digits, most significant first
NatToStr(n) ==
  IF n < 10 THEN <<48 + n>> ELSE NatToStr(n \div 10) \o <<48 + (n % 10)>>

\* str(i) as the f-string fields {post.score}, {response.status_code} format it
IntToStr(i) == IF i < 0 THEN <<45>> \o NatToStr(0 - i) ELSE NatToStr(i)

\* a %m, %d, %H, %M or %S field: two digits, zero padded
Pad2(n) == IF n < 10 THEN <<48>> \o NatToStr(n) ELSE NatToStr(n)

\* int(s) of main.py:215 for an unsigned decimal argument; ok = FALSE is the
\* ValueError int() raises on anything else
RECURSIVE DigitsToNat(_, _)
DigitsToNat(s, acc) ==
  IF s = <<>> THEN acc ELSE DigitsToNat(Tail(s), acc * 10 + (Head(s) - 48))

ParseInt(s) ==
  IF s # <<>> /\ \A i \in 1..Len(s) : s[i] \in 48..57
  THEN [ok |-> TRUE, val |-> DigitsToNat(s, 0)]
  ELSE [ok |-> FALSE, val |-> 0]

RECURSIVE Join(_, _)
\* sep.join(list)
Join(sep, list) ==
  IF list = <<>> THEN <<>>
  ELSE IF Len(list) = 1 THEN list[1]
  ELSE list[1] \o sep \o Join(sep, Tail(list))

\* datetime.utcfromtimestamp(t) for t >= 0 (proleptic Gregorian calendar)
utcfromtimestamp(t) ==
  LET z    == (t \div 86400) + 719468
      era  == z \div 146097
      doe  == z - era * 146097
      yoe  == (doe - doe \div 1460 + doe \div 36524 - doe \div 146096) \div 365
      doy  == doe - (365 * yoe + yoe \div 4 - yoe \div 100)
      mp   == (5 * doy + 2) \div 153
      d    == doy - (153 * mp + 2) \div 5 + 1
      m    == IF mp < 10 THEN mp + 3 ELSE mp - 9
      y    == yoe + era * 400 + (IF m <= 2 THEN 1 ELSE 0)
      secs == t % 86400
  IN [year |-> y, month |-> m, day |-> d,
      hour |-> secs \div 3600, minute |-> (secs % 3600) \div 60,
      second |-> secs % 60]

\* f"{post_date:%Y/%m/%d %H:%M:%S}"
FormatDate(dt) ==
  NatToStr(dt.year) \o <<47>> \o Pad2(dt.month) \o <<47>> \o Pad2(dt.day)
    \o <<32>> \o Pad2(dt.hour) \o <<58>> \o Pad2(dt.minute) \o <<58>>
    \o Pad2(dt.second)

(* ------------------------- RedditClient ------------------------------- *)

\* [comment.body for comment in comments if isinstance(comment, Comment)]
RECURSIVE comment_list(_)
comment_list(comments) ==
  IF comments = <<>> THEN <<>>
  ELSE IF Head(comments).kind = "Comment"
       THEN <<Head(comments).body>> \o comment_list(Tail(comments))
       ELSE comment_list(Tail(comments))

\* the block built for one post, main.py:33-42
post_text(post) ==
  TitleLabel \o post.title \o UrlLabel \o post.url \o DateLabel
    \o FormatDate(utcfromtimestamp(post.created_utc)) \o <<LF>>
    \o ScoreLabel \o IntToStr(post.score) \o NumCommentsLabel
    \o IntToStr(post.num_comments) \o BodyLabel \o post.selftext \o <<LF>>
    \o CommentListLabel \o Join(<<LF>>, comment_list(post.comments))

RECURSIVE get_hot_posts_with_comments_prepend(_)
\* variant: each block is put in front of the text instead of after it
get_hot_posts_with_comments_prepend(best_posts) ==
  IF best_posts = <<>> THEN <<>>
  ELSE post_text(best_posts[Len(best_posts)]) \o BlockEnd
         \o get_hot_posts_with_comments_prepend(
               SubSeq(best_posts, 1, Len(best_posts) - 1))

RECURSIVE get_hot_posts_with_comments(_)
\* the text assembled from the listing best_posts, main.py:31-44
get_hot_posts_with_comments(best_posts) ==
  IF best_posts = <<>> THEN <<>>
  ELSE get_hot_posts_with_comments(SubSeq(best_posts, 1, Len(best_posts) - 1))
         \o post_text(best_posts[Len(best_posts)]) \o BlockEnd

(* --------------------------- AI clients ------------------------------- *)

\* AIClient.build_common_messages
build_common_messages(prompt) == prompt

\* OpenAIChatClient.build_messages
openai_build_messages(text) == build_common_messages(text)

\* CohereChatClient.build_messages: {"role": ..., "text": msg["content"]}
cohere_build_messages(text) ==
  LET common_messages == build_common_messages(text)
  IN [i \in 1..Len(common_messages) |->
        [role |-> common_messages[i].role, text |-> common_messages[i].content]]

\* the request summarize_text hands to the provider's client
summarize_request(engine, model, text) ==
  IF engine = "openai"
  THEN [api |-> "openai.chat.completions.create",
        kwargs |-> [model |-> model, messages |-> openai_build_messages(text)]]
  ELSE [api |-> "cohere.chat",
        kwargs |-> [model |-> model, chat_history |-> cohere_build_messages(text),
                    message |-> CohereMessage, temperature |-> 1]]

(* ------------------------- prompt templates --------------------------- *)

\* Application.build_theme_prompt
build_theme_prompt(text) ==
  << [role |-> "system", content |-> ThemeSystemContent],
     [role |-> "user", content |-> text] >>

\* variant: the user message of the poem prompt is left empty
build_poem_prompt_no_theme(theme_text) ==
  << [role |-> "system", content |-> PoemSystemContent],
     [role |-> "user", content |-> <<>>] >>

\* Application.build_poem_prompt
build_poem_prompt(theme_text) ==
  << [role |-> "system", content |-> PoemSystemContent],
     [role |-> "user", content |-> theme_text] >>

(* --------------------------- SlackNotifier ---------------------------- *)

\* JSON body of the chat.postMessage request, main.py:107-111
slack_payload(channel, text, ts) ==
  [channel |-> channel, text |-> text, thread_ts |-> ts]

\* what send_message does with the response, main.py:113-117:
\* exc # "" is the exception that escapes, ret the returned value,
\* out the lines it prints
slack_handle_response(response) ==
  IF response.status_code = StatusOK
  THEN IF ~response.is_json
       THEN [exc |-> "JSONDecodeError", ret |-> None, out |-> <<>>]
       ELSE IF "ok" \notin response.keys
       THEN [exc |-> "KeyError", ret |-> None, out |-> <<>>]
       ELSE IF response.ok
       THEN IF "ts" \notin response.keys
            THEN [exc |-> "KeyError", ret |-> None, out |-> <<>>]
            ELSE [exc |-> "", ret |-> response.ts, out |-> <<>>]
       ELSE [exc |-> "", ret |-> None,
             out |-> <<SlackErrorPrefix \o IntToStr(response.status_code)
                         \o <<58, 32>> \o response.text>>]
  ELSE [exc |-> "", ret |-> None,
        out |-> <<SlackErrorPrefix \o IntToStr(response.status_code)
                    \o <<58, 32>> \o response.text>>]

(* --------------------------- Application ------------------------------ *)

\* variant: an unknown value falls back to the default backend
select_ai_client_fallback(ai_engine) ==
  IF ai_engine = "cohere" THEN "cohere" ELSE "openai"

\* the branch of main.py:135-141 taken for a value of AI_ENGINE:
\* the client class built, or the ValueError
select_ai_client(ai_engine) ==
  IF ai_engine = "openai" THEN "openai"
  ELSE IF ai_engine = "cohere" THEN "cohere"
  ELSE "ValueError"

\* os.getenv(name, default)
getenv(environ, name, default) ==
  IF environ[name] = None THEN default ELSE environ[name]

\* variant: the gate lets a text of PoemLimit + 1 characters through
exceeds_limit_off_by_one(poem_text) == Len(poem_text) > PoemLimit + 1

\* main.py:168 the length gate before the social post
exceeds_limit(poem_text) == Len(poem_text) > PoemLimit

\* variant: the poem is posted without the hashtag suffix
bluesky_text_plain(poem_text) == poem_text

\* main.py:171 the text handed to the social sink
bluesky_text(poem_text) == poem_text \o HashtagSuffix

\* variant: a different default limit
cli_limit_default_ten(args) ==
  IF Len(args) > 2 THEN ParseInt(args[3]) ELSE [ok |-> TRUE, val |-> 10]

\* main.py:215 the limit main passes to run
cli_limit(args) ==
  IF Len(args) > 2 THEN ParseInt(args[3]) ELSE [ok |-> TRUE, val |-> DefaultLimit]

(* ------------------------- inputs of one run -------------------------- *)

\* c repeated n times
Rep(c, n) == [i \in 1..n |-> c]

ProgName == <<109, 97, 105, 110, 46, 112, 121>>
Community == <<112, 114, 111, 103, 114, 97, 109, 109, 105, 110, 103, 95, 106, 112>>

\* sys.argv: no argument, community only, community and a limit,
\* community and a limit that is not a number
ArgvSet ==
  { <<ProgName>>, <<ProgName, Community>>, <<ProgName, Community, <<49>>>>,
    <<ProgName, Community, <<120>>>> }

\* os.environ after load_dotenv(): the three settings the control flow
\* depends on vary, the remaining credentials are fixed
EnvironSet ==
  [ AI_ENGINE        : {None, "openai", "cohere", "", "OpenAI", "gemini"},
    SLACK_BOT_TOKEN  : {None, "", "xoxb-1"},
    BLUESKY_USERNAME : {None, "", "poemer.bsky.social"},
    AI_MODEL         : {"model-1"},
    SLACK_CHANNEL    : {"C0POEM"},
    BLUESKY_PASSWORD : {"app-password"} ]

\* submissions the forum API can return
PostA ==
  [title |-> <<28023>>, url |-> <<117, 47, 97>>, created_utc |-> 0, score |-> 1,
   num_comments |-> 0, selftext |-> <<>>, comments |-> <<>>]
PostB ==
  [title |-> <<84, 76, 65>>, url |-> <<117, 47, 98>>, created_utc |-> 951827696,
   score |-> 12, num_comments |-> 3, selftext |-> <<120, 10, 10, 121>>,
   comments |-> << [kind |-> "Comment", body |-> <<99, 49>>],
                   [kind |-> "MoreComments", body |-> <<>>],
                   [kind |-> "Comment", body |-> <<99, 50>>] >>]
\* a submission one of whose comments quotes the submission's own title line
PostC ==
  [title |-> <<35433>>, url |-> <<117, 47, 99>>, created_utc |-> 86399, score |-> 0,
   num_comments |-> 1, selftext |-> <<>>,
   comments |-> << [kind |-> "Comment", body |-> <<12479, 12452, 12488, 12523, 58, 32, 35433>>] >>]

PostSet == {PostA, PostB, PostC}

\* listings subreddit.top(limit=n) can yield: at most n submissions
Listings(n) ==
  UNION { [1..k -> PostSet] : k \in 0..(IF n < MaxPosts THEN n ELSE MaxPosts) }

\* texts the generation backend can return as a theme
ThemeSet == { <<28023>>, <<12300, 29483, 12301, 12392, 12300, 37327, 23376, 12301>> }

\* texts the generation backend can return as a poem: short, exactly at the
\* limit, one over the limit
PoemSet == { <<27874, 12399, 25968, 12360, 12427>>, Rep(12354, PoemLimit), Rep(12354, PoemLimit + 1) }

\* responses of chat.postMessage
Ts1 == "1718000000.000100"
ResponseSet ==
  { [status_code |-> 200, is_json |-> TRUE, keys |-> {"ok", "ts"}, ok |-> TRUE,
     ts |-> Ts1, text |-> <<123, 34, 111, 107, 34, 58, 116, 114, 117, 101, 44, 34, 116, 115, 34, 58, 34, 49, 
     55, 49, 56, 48, 48, 48, 48, 48, 48, 46, 48, 48, 48, 49, 48, 48, 34, 125>>],
    [status_code |-> 200, is_json |-> TRUE, keys |-> {"ok"}, ok |-> TRUE,
     ts |-> None, text |-> <<123, 34, 111, 107, 34, 58, 116, 114, 117, 101, 125>>],
    [status_code |-> 200, is_json |-> TRUE, keys |-> {"ok", "error"}, ok |-> FALSE,
     ts |-> None, text |-> <<123, 34, 111, 107, 34, 58, 102, 97, 108, 115, 101, 44, 34, 101, 114, 114, 111, 114, 
     34, 58, 34, 105, 110, 118, 97, 108, 105, 100, 95, 97, 117, 116, 104, 34, 125>>],
    [status_code |-> 200, is_json |-> TRUE, keys |-> {}, ok |-> FALSE,
     ts |-> None, text |-> <<123, 125>>],
    [status_code |-> 200, is_json |-> FALSE, keys |-> {}, ok |-> FALSE,
     ts |-> None, text |-> <<60, 104, 116, 109, 108, 62>>],
    [status_code |-> 500, is_json |-> FALSE, keys |-> {}, ok |-> FALSE,
     ts |-> None, text |-> <<111, 111, 112, 115>>],
    [status_code |-> 429, is_json |-> TRUE, keys |-> {"ok", "ts"}, ok |-> TRUE,
     ts |-> Ts1, text |-> <<123, 34, 111, 107, 34, 58, 116, 114, 117, 101, 44, 34, 116, 115, 34, 58, 34, 49, 
     55, 49, 56, 48, 48, 48, 48, 48, 48, 46, 48, 48, 48, 49, 48, 48, 34, 125>>] }

(* ------------------------------ state --------------------------------- *)

VARIABLES
  pc,              \* where the process is
  argv,            \* sys.argv
  environ,         \* os.environ
  subreddit_name,  \* main's theme / run's subreddit_name
  limit,           \* run's limit
  attrs,           \* attributes set on the Application instance
  ai_client,       \* class of self.ai_client
  best_posts,      \* the listing the forum API returned
  all_posts_text,  \* run's all_posts_text
  theme,           \* run's theme
  poem,            \* run's poem
  thread_ts,       \* run's thread_ts
  stdout,          \* lines printed
  exc,             \* the exception that ended the process, "" if none
  raised_at,       \* the step it escaped from
  exit_code,       \* process exit status, -1 while running
  net,             \* outgoing calls to external services, in order
  gen_requests,    \* requests handed to the generation backend
  slack_requests,  \* JSON payloads posted to the chat API
  slack_responses, \* responses the chat API gave, one per request answered
  slack_returns,   \* values SlackNotifier.send_message returned
  sends            \* send_message invocations made by run

vars == <<pc, argv, environ, subreddit_name, limit, attrs, ai_client,
          best_posts, all_posts_text, theme, poem, thread_ts, stdout, exc,
          raised_at, exit_code, net, gen_requests, slack_requests,
          slack_responses, slack_returns, sends>>

Init ==
  /\ pc = "main"
  /\ argv \in ArgvSet
  /\ environ \in EnvironSet
  /\ subreddit_name = <<>>
  /\ limit = 0
  /\ attrs = {}
  /\ ai_client = ""
  /\ best_posts = <<>>
  /\ all_posts_text = <<>>
  /\ theme = <<>>
  /\ poem = <<>>
  /\ thread_ts = None
  /\ stdout = <<>>
  /\ exc = ""
  /\ raised_at = ""
  /\ exit_code = -1
  /\ net = <<>>
  /\ gen_requests = <<>>
  /\ slack_requests = <<>>
  /\ slack_responses = <<>>
  /\ slack_returns = <<>>
  /\ sends = <<>>

\* an exception escapes to the top level: traceback, exit status 1
Raise(e) ==
  /\ pc' = "raised"
  /\ exc' = e
  /\ raised_at' = pc
  /\ exit_code' = 1

(* ------------------------------ __main__ ------------------------------ *)

\* main.py:212-220 up to the construction of the Application
Main ==
  /\ pc = "main"
  /\ IF Len(argv) > 1
     THEN LET lim == cli_limit(argv)
          IN /\ subreddit_name' = argv[2]
             /\ IF lim.ok
                THEN /\ limit' = lim.val
                     /\ pc' = "construct"
                     /\ UNCHANGED <<exc, raised_at, exit_code>>
                ELSE /\ Raise("ValueError")
                     /\ UNCHANGED limit
             /\ UNCHANGED stdout
     ELSE /\ stdout' = Append(stdout, UsageMessage)
          /\ pc' = "exited"
          /\ exit_code' = UsageExitCode
          /\ UNCHANGED <<subreddit_name, limit, exc, raised_at>>
  /\ UNCHANGED <<argv, environ, attrs, ai_client, best_posts, all_posts_text,
                 theme, poem, thread_ts, net, gen_requests, slack_requests,
                 slack_responses, slack_returns, sends>>

\* attributes Application.__init__ sets when it runs to its end, main.py:133-146
init_attrs(environ_) ==
  {"reddit_client", "ai_client"}
    \cup (IF Truthy(getenv(environ_, "SLACK_BOT_TOKEN", None))
          THEN {"slack_notifier"} ELSE {})
    \cup (IF Truthy(getenv(environ_, "BLUESKY_USERNAME", None))
          THEN {"bluesky_notifier"} ELSE {})

\* Application.__init__, main.py:132-146
ApplicationInit ==
  /\ pc = "construct"
  /\ LET ai_engine == getenv(environ, "AI_ENGINE", "openai")
         selected  == select_ai_client(ai_engine)
     IN IF selected = "ValueError"
        THEN /\ attrs' = {"reddit_client"}
             /\ Raise("ValueError")
             /\ UNCHANGED ai_client
        ELSE /\ ai_client' = selected
             /\ attrs' = init_attrs(environ)
             /\ pc' = "fetch"
             /\ UNCHANGED <<exc, raised_at, exit_code>>
  /\ UNCHANGED <<argv, environ, subreddit_name, limit, best_posts,
                 all_posts_text, theme, poem, thread_ts, stdout, net,
                 gen_requests, slack_requests, slack_responses,
                 slack_returns, sends>>

(* --------------------------- Application.run -------------------------- *)

\* variant: a failed listing request is tried again
RunFetch_retry ==
  /\ pc = "fetch"
  /\ net' = Append(net, "reddit.top")
  /\ \/ UNCHANGED <<pc, exc, raised_at, exit_code, best_posts, all_posts_text,
                    stdout>>
     \/ \E listing \in Listings(limit) :
          /\ best_posts' = listing
          /\ all_posts_text' = get_hot_posts_with_comments(listing)
          /\ stdout' = Append(stdout, get_hot_posts_with_comments(listing))
          /\ pc' = "theme"
          /\ UNCHANGED <<exc, raised_at, exit_code>>
  /\ UNCHANGED <<argv, environ, subreddit_name, limit, attrs, ai_client, theme,
                 poem, thread_ts, gen_requests, slack_requests, slack_responses,
                 slack_returns, sends>>

\* main.py:150-153: the forum listing is fetched and assembled
RunFetch ==
  /\ pc = "fetch"
  /\ net' = Append(net, "reddit.top")
  /\ \/ /\ Raise("RequestException")
        /\ UNCHANGED <<best_posts, all_posts_text, stdout>>
     \/ \E listing \in Listings(limit) :
          /\ best_posts' = listing
          /\ all_posts_text' = get_hot_posts_with_comments(listing)
          /\ stdout' = Append(stdout, get_hot_posts_with_comments(listing))
          /\ pc' = "theme"
          /\ UNCHANGED <<exc, raised_at, exit_code>>
  /\ UNCHANGED <<argv, environ, subreddit_name, limit, attrs, ai_client, theme,
                 poem, thread_ts, gen_requests, slack_requests, slack_responses,
                 slack_returns, sends>>

\* main.py:154-157: theme-extraction call
RunTheme ==
  /\ pc = "theme"
  /\ net' = Append(net, "generate.theme")
  /\ gen_requests' =
       Append(gen_requests,
              summarize_request(ai_client, getenv(environ, "AI_MODEL", None),
                                build_theme_prompt(all_posts_text)))
  /\ \/ /\ Raise("APIError")
        /\ UNCHANGED <<theme, stdout>>
     \/ \E text \in ThemeSet :
          /\ theme' = text
          /\ stdout' = Append(stdout, text)
          /\ pc' = "poem"
          /\ UNCHANGED <<exc, raised_at, exit_code>>
  /\ UNCHANGED <<argv, environ, subreddit_name, limit, attrs, ai_client,
                 best_posts, all_posts_text, poem, thread_ts, slack_requests,
                 slack_responses, slack_returns, sends>>

\* main.py:160-162: poem-generation call
RunPoem ==
  /\ pc = "poem"
  /\ net' = Append(net, "generate.poem")
  /\ gen_requests' =
       Append(gen_requests,
              summarize_request(ai_client, getenv(environ, "AI_MODEL", None),
                                build_poem_prompt(theme)))
  /\ \/ /\ Raise("APIError")
        /\ UNCHANGED <<poem, stdout>>
     \/ \E text \in PoemSet :
          /\ poem' = text
          /\ stdout' = Append(stdout, text)
          /\ pc' = "slack_gate"
          /\ UNCHANGED <<exc, raised_at, exit_code>>
  /\ UNCHANGED <<argv, environ, subreddit_name, limit, attrs, ai_client,
                 best_posts, all_posts_text, theme, thread_ts, slack_requests,
                 slack_responses, slack_returns, sends>>

\* main.py:164: self.slack_notifier is read
RunSlackGate ==
  /\ pc = "slack_gate"
  /\ IF "slack_notifier" \in attrs
     THEN /\ pc' = "slack_header"
          /\ UNCHANGED <<exc, raised_at, exit_code>>
     ELSE Raise("AttributeError")
  /\ UNCHANGED <<argv, environ, subreddit_name, limit, attrs, ai_client,
                 best_posts, all_posts_text, theme, poem, thread_ts, stdout,
                 net, gen_requests, slack_requests, slack_responses,
                 slack_returns, sends>>

\* SlackNotifier.send_message(text, ts) called from step `site`, going to
\* `next` when it returns; the returned value is bound to thread_ts only by
\* the header send (main.py:165)
SlackSend(site, text, ts, bind, next) ==
  /\ sends' = Append(sends, [sink |-> "slack", text |-> text, thread_ts |-> ts])
  /\ slack_requests' =
       Append(slack_requests,
              slack_payload(getenv(environ, "SLACK_CHANNEL", None), text, ts))
  /\ net' = Append(net, site)
  /\ \/ /\ Raise("ConnectionError")
        /\ UNCHANGED <<thread_ts, stdout, slack_responses, slack_returns>>
     \/ \E response \in ResponseSet :
          LET r == slack_handle_response(response)
          IN /\ slack_responses' = Append(slack_responses, response)
             /\ IF r.exc # ""
                THEN /\ Raise(r.exc)
                     /\ UNCHANGED <<thread_ts, stdout, slack_returns>>
                ELSE /\ thread_ts' = (IF bind THEN r.ret ELSE thread_ts)
                     /\ slack_returns' = Append(slack_returns, r.ret)
                     /\ stdout' = stdout \o r.out
                     /\ pc' = next
                     /\ UNCHANGED <<exc, raised_at, exit_code>>
  /\ UNCHANGED <<argv, environ, subreddit_name, limit, attrs, ai_client,
                 best_posts, all_posts_text, theme, poem, gen_requests>>

\* variant: the poem is posted without the thread reference
poem_thread_ref_dropped(ts) == None

\* the thread reference the poem is posted with, main.py:166
poem_thread_ref(ts) == ts

\* main.py:165
RunSlackHeader ==
  /\ pc = "slack_header"
  /\ SlackSend("slack.header", PoemHeader, None, TRUE, "slack_poem")

\* main.py:166
RunSlackPoem ==
  /\ pc = "slack_poem"
  /\ SlackSend("slack.poem", poem, poem_thread_ref(thread_ts), FALSE,
               "bluesky_gate")

\* main.py:167-171: self.bluesky_notifier is read, then the length gate
RunBlueskyGate ==
  /\ pc = "bluesky_gate"
  /\ IF "bluesky_notifier" \notin attrs
     THEN /\ Raise("AttributeError")
          /\ UNCHANGED stdout
     ELSE IF exceeds_limit(poem)
     THEN /\ stdout' = Append(stdout, SkipMessage)
          /\ pc' = "done"
          /\ exit_code' = 0
          /\ UNCHANGED <<exc, raised_at>>
     ELSE /\ pc' = "bluesky_send"
          /\ UNCHANGED <<stdout, exc, raised_at, exit_code>>
  /\ UNCHANGED <<argv, environ, subreddit_name, limit, attrs, ai_client,
                 best_posts, all_posts_text, theme, poem, thread_ts, net,
                 gen_requests, slack_requests, slack_responses,
                 slack_returns, sends>>

\* main.py:172 and BlueSkyNotifier.send_message, main.py:125-128
RunBlueskySend ==
  /\ pc = "bluesky_send"
  /\ sends' = Append(sends, [sink |-> "bluesky", text |-> bluesky_text(poem),
                             thread_ts |-> None])
  /\ \/ /\ net' = Append(net, "bluesky.login")
        /\ Raise("UnauthorizedError")
     \/ /\ net' = net \o <<"bluesky.login", "bluesky.send_post">>
        /\ Raise("NetworkError")
     \/ /\ net' = net \o <<"bluesky.login", "bluesky.send_post">>
        /\ pc' = "done"
        /\ exit_code' = 0
        /\ UNCHANGED <<exc, raised_at>>
  /\ UNCHANGED <<argv, environ, subreddit_name, limit, attrs, ai_client,
                 best_posts, all_posts_text, theme, poem, thread_ts, stdout,
                 gen_requests, slack_requests, slack_responses,
                 slack_returns>>

Next ==
  \/ Main
  \/ ApplicationInit
  \/ RunFetch
  \/ RunTheme
  \/ RunPoem
  \/ RunSlackGate
  \/ RunSlackHeader
  \/ RunSlackPoem
  \/ RunBlueskyGate
  \/ RunBlueskySend

Spec == Init /\ [][Next]_vars

(* ----------------------- observation helpers -------------------------- *)

\* the value of AI_ENGINE the constructor sees
ConfiguredEngine == getenv(environ, "AI_ENGINE", "openai")

\* sinks whose credential variable is present
EnabledSinks ==
  (IF Truthy(environ.SLACK_BOT_TOKEN) THEN {"slack"} ELSE {})
    \cup (IF Truthy(environ.BLUESKY_USERNAME) THEN {"bluesky"} ELSE {})

\* the send_message invocations that went to one sink, in order
SendsTo(sink) == LET ToSink(s) == s.sink = sink IN SelectSeq(sends, ToSink)

\* the texts of a sequence of invocations
TextsOf(calls) == [i \in 1..Len(calls) |-> calls[i].text]

\* the texts of the user-role messages of a generation request
UserTexts(req) ==
  LET IsUser(m) == m.role = "user"
      ms == IF req.api = "cohere.chat"
            THEN SelectSeq(req.kwargs.chat_history, IsUser)
            ELSE SelectSeq(req.kwargs.messages, IsUser)
  IN [i \in 1..Len(ms) |->
        IF req.api = "cohere.chat" THEN ms[i].text ELSE ms[i].content]

SinkSites == {"slack.header", "slack.poem", "bluesky.login", "bluesky.send_post"}

\* steps of run that come after the poem-generation call has returned
AfterPoem ==
  {"slack_gate", "slack_header", "slack_poem", "bluesky_gate", "bluesky_send",
   "done"}

\* the run has got past the poem-generation call
PoemReturned ==
  pc \in AfterPoem \/ (pc = "raised" /\ raised_at \in AfterPoem)

\* text.split("\n"): the pieces between consecutive line feeds
Split(s) ==
  LET P == {i \in 1..Len(s) : s[i] = LF}
      n == Cardinality(P)
      Kth(k) == CHOOSE x \in P : Cardinality({y \in P : y < x}) = k - 1
      Cut(k) == IF k = 0 THEN 0 ELSE IF k = n + 1 THEN Len(s) + 1 ELSE Kth(k)
  IN [k \in 1..(n + 1) |-> SubSeq(s, Cut(k - 1) + 1, Cut(k) - 1)]

IsTitleLine(line) ==
  Len(line) >= Len(TitleLabel) /\ SubSeq(line, 1, Len(TitleLabel)) = TitleLabel

\* the lines of a text that start with the title label, in order
TitleLines(text) == SelectSeq(Split(text), IsTitleLine)

\* the title lines a listing should give rise to
ExpectedTitleLines(posts) == [i \in 1..Len(posts) |-> TitleLabel \o posts[i].title]

\* every title line but the first line of the text follows an empty line,
\* and a non-empty text ends with an empty line
BlankLineSeparated(text) ==
  LET L == Split(text)
  IN /\ \A k \in 2..Len(L) : IsTitleLine(L[k]) => L[k - 1] = <<>>
     /\ text # <<>> =>
          /\ Len(text) >= 2
          /\ SubSeq(text, Len(text) - 1, Len(text)) = <<LF, LF>>

\* titles and urls are single lines and no body or comment has a line that
\* starts with the title label
PlainListing(posts) ==
  \A i \in 1..Len(posts) :
    /\ \A k \in 1..Len(posts[i].title) : posts[i].title[k] # LF
    /\ \A k \in 1..Len(posts[i].url) : posts[i].url[k] # LF
    /\ TitleLines(posts[i].selftext) = <<>>
    /\ \A c \in 1..Len(posts[i].comments) :
         posts[i].comments[c].kind = "Comment"
           => TitleLines(posts[i].comments[c].body) = <<>>

(* ------------------------------ claims -------------------------------- *)

\* C1: for every value of AI_ENGINE other than "openai" and "cohere" the
\* constructor ends in a ValueError and no external call is made before or
\* after it; with AI_ENGINE unset the openai client is selected and the
\* constructor runs to its end.
C1_UnsupportedEngineIsFatal ==
  /\ ConfiguredEngine \notin {"openai", "cohere"} =>
       /\ net = <<>> /\ sends = <<>> /\ gen_requests = <<>>
       /\ slack_requests = <<>>
       /\ pc \in {"main", "construct", "exited", "raised"}
       /\ pc = "raised" => raised_at \in {"main", "construct"}
       /\ raised_at = "construct" => exc = "ValueError" /\ exit_code = 1
  /\ (environ.AI_ENGINE = None /\ pc \notin {"main", "construct", "exited"}
        /\ raised_at # "main") =>
       /\ ai_client = "openai"
       /\ raised_at # "construct"
       /\ {"reddit_client", "ai_client"} \subseteq attrs

C1_Witness ==
  /\ pc = "raised" /\ raised_at = "construct" /\ exc = "ValueError"
  /\ environ.AI_ENGINE = "OpenAI" /\ net = <<>>

\* C2: a poem longer than 140 characters is never handed to the social sink:
\* the gate prints the skip message and the run ends normally; the social
\* sink is invoked only with a poem of at most 140 characters.
C2_LongPoemNeverPosted ==
  /\ \A i \in 1..Len(sends) : sends[i].sink = "bluesky" => Len(poem) <= 140
  /\ Len(poem) > 140 =>
       /\ pc # "bluesky_send"
       /\ \A i \in 1..Len(net) : net[i] \notin {"bluesky.login", "bluesky.send_post"}
       /\ "bluesky_notifier" \in attrs =>
            raised_at \notin {"bluesky_gate", "bluesky_send"}
       /\ pc = "done" =>
            /\ exit_code = 0 /\ exc = ""
            /\ stdout[Len(stdout)] = SkipMessage

C2_Witness ==
  /\ pc = "done" /\ Len(poem) = 141 /\ "bluesky_notifier" \in attrs
  /\ stdout[Len(stdout)] = SkipMessage /\ SendsTo("bluesky") = <<>>

\* C3 (as claimed): whenever the response is not a 200 whose body has ok true,
\* send_message returns None without raising; it returns a ts only for a 200
\* with ok true, and then the response's ts.
C3_SendReturnsNullOnFailure ==
  \A i \in 1..Len(slack_responses) :
    LET r == slack_responses[i]
        ok_true == r.is_json /\ "ok" \in r.keys /\ r.ok
    IN /\ ~(r.status_code = 200 /\ ok_true) =>
            i <= Len(slack_returns) /\ slack_returns[i] = None
       /\ (i <= Len(slack_returns) /\ slack_returns[i] # None) =>
            r.status_code = 200 /\ ok_true /\ slack_returns[i] = r.ts

\* C4 (as claimed): once fetch and both generation calls have succeeded the
\* run ends without raising for each of the four combinations of the two sink
\* credentials, and exactly the sinks whose credential is present are invoked.
C4_SinksOptional ==
  /\ raised_at \notin {"slack_gate", "bluesky_gate"}
  /\ \A i \in 1..Len(sends) : sends[i].sink \in EnabledSinks
  /\ pc = "done" =>
       {sends[i].sink : i \in 1..Len(sends)}
         = (IF Len(poem) > 140 THEN EnabledSinks \ {"bluesky"} ELSE EnabledSinks)

\* C5: the external calls of a run are made in the order fetch, theme call,
\* poem call, sinks: one fetch, then two generation calls; the user message of
\* the first call is the fetched text and that of the second is the text the
\* first returned; no sink is invoked before the poem call has returned.
C5_CallOrder ==
  /\ \A i \in 1..Len(net) :
       IF i <= 3 THEN net[i] = <<"reddit.top", "generate.theme", "generate.poem">>[i]
       ELSE net[i] \in SinkSites
  /\ Len(gen_requests) <= 2
  /\ Len(gen_requests) = Cardinality({i \in 1..Len(net) :
                                       net[i] \in {"generate.theme", "generate.poem"}})
  /\ Len(gen_requests) >= 1 =>
       UserTexts(gen_requests[1]) = <<get_hot_posts_with_comments(best_posts)>>
  /\ Len(gen_requests) = 2 => UserTexts(gen_requests[2]) = <<theme>>
  /\ (sends # <<>> \/ slack_requests # <<>>) =>
       PoemReturned /\ Len(net) >= 3 /\ Len(gen_requests) = 2
  /\ PoemReturned =>
       SubSeq(net, 1, 3) = <<"reddit.top", "generate.theme", "generate.poem">>

C5_Witness ==
  /\ pc = "done" /\ Len(sends) = 3 /\ ai_client = "cohere"
  /\ Len(best_posts) = 2 /\ Len(net) = 7

\* C6 (as claimed): in a completed run whose poem has at most 140 characters
\* every enabled sink was called exactly once, with exactly the poem.
C6_EachSinkOnceWithPoem ==
  (pc = "done" /\ Len(poem) <= 140) =>
    \A s \in EnabledSinks : TextsOf(SendsTo(s)) = <<poem>>

\* C6 (amended): with a poem of at most 140 characters the chat sink is called
\* twice, first with the fixed header and then with exactly the poem, and the
\* social sink at most once, with the poem followed by the hashtag suffix; a
\* run that completes has made exactly these three calls.
C6_SinkCallsAmended ==
  (PoemReturned /\ Len(poem) <= 140) =>
    /\ Len(sends) <= 3
    /\ \A i \in 1..Len(sends) :
         sends[i] = << [sink |-> "slack", text |-> PoemHeader, thread_ts |-> None],
                       [sink |-> "slack", text |-> poem, thread_ts |-> thread_ts],
                       [sink |-> "bluesky", text |-> poem \o HashtagSuffix,
                        thread_ts |-> None] >>[i]
    /\ pc \in {"bluesky_gate", "bluesky_send"} => Len(sends) = 2
    /\ pc = "done" => Len(sends) = 3

C6_Witness ==
  /\ pc = "done" /\ Len(poem) = 140 /\ Len(sends) = 3
  /\ sends[3].text = poem \o HashtagSuffix

\* C7: no external call is made twice in a run, and when the fetch or a
\* generation call raises, the exception ends the process with that call as
\* the last one made and no sink invoked.
C7_NoRetries ==
  /\ \A i, j \in 1..Len(net) : i # j => net[i] # net[j]
  /\ Len(gen_requests) <= 2 /\ Len(slack_requests) <= 2
  /\ Len(SendsTo("bluesky")) <= 1
  /\ raised_at \in {"fetch", "theme", "poem"} =>
       /\ pc = "raised" /\ exc # "" /\ exit_code = 1
       /\ sends = <<>> /\ slack_requests = <<>>
       /\ net = SubSeq(<<"reddit.top", "generate.theme", "generate.poem">>, 1,
                       CASE raised_at = "fetch" -> 1
                         [] raised_at = "theme" -> 2
                         [] raised_at = "poem" -> 3)

C7_Witness ==
  /\ pc = "raised" /\ raised_at = "poem" /\ exc = "APIError"
  /\ EnabledSinks = {"slack", "bluesky"} /\ sends = <<>>

\* C8: without an argument the program prints the usage message and exits
\* with status 1, building no Application and making no external call; with
\* the community as only argument run gets limit 3.
C8_CommandLine ==
  /\ (Len(argv) <= 1 /\ pc # "main") =>
       /\ pc = "exited" /\ exit_code = 1 /\ stdout = <<UsageMessage>>
       /\ attrs = {} /\ ai_client = "" /\ net = <<>> /\ sends = <<>>
  /\ (Len(argv) = 2 /\ pc # "main") =>
       limit = 3 /\ subreddit_name = argv[2] /\ pc # "exited"

C8_Witness ==
  /\ pc = "exited" /\ Len(argv) = 1 /\ exit_code = 1
  /\ stdout = <<UsageMessage>>

\* C9 (as claimed): for every listing the title lines of the assembled text
\* are the posts' titles, once each and in input order, the blocks are
\* separated by an empty line, and an empty listing gives the empty text.
C9_TitlesOnceInOrder ==
  pc = "theme" =>
    /\ TitleLines(all_posts_text) = ExpectedTitleLines(best_posts)
    /\ BlankLineSeparated(all_posts_text)
    /\ best_posts = <<>> => all_posts_text = <<>>

\* C9 (amended): the same, for listings whose titles and urls are single
\* lines and whose bodies and comments have no line starting with the title
\* label; for every listing the text is empty exactly when the listing is.
C9_TitlesOnceInOrderPlain ==
  pc = "theme" =>
    /\ PlainListing(best_posts) =>
         /\ TitleLines(all_posts_text) = ExpectedTitleLines(best_posts)
         /\ BlankLineSeparated(all_posts_text)
    /\ best_posts = <<>> <=> all_posts_text = <<>>

C9_Witness ==
  /\ pc = "theme" /\ best_posts = <<PostB, PostA>>
  /\ PlainListing(best_posts) /\ Len(TitleLines(all_posts_text)) = 2

\* C10: the chat sink gets the header first, with no thread reference, then
\* the poem with the value the header send returned as thread reference; when
\* the header send returned None the poem is still sent, with None; both chat
\* sends are over before the social sink is considered.
C10_ChatThreading ==
  LET chat == SendsTo("slack")
  IN /\ Len(chat) >= 1 =>
          /\ chat[1] = [sink |-> "slack", text |-> PoemHeader, thread_ts |-> None]
          /\ slack_requests[1].thread_ts = None
          /\ sends[1] = chat[1]
     /\ Len(chat) >= 2 =>
          /\ Len(slack_returns) >= 1
          /\ chat[2] = [sink |-> "slack", text |-> poem,
                        thread_ts |-> slack_returns[1]]
          /\ slack_requests[2].thread_ts = slack_returns[1]
          /\ slack_requests[2].text = poem
          /\ sends[2] = chat[2]
     /\ Len(slack_returns) >= 1 => (pc = "slack_poem" \/ Len(chat) = 2)
     /\ (pc \in {"bluesky_gate", "bluesky_send", "done"}
           \/ raised_at \in {"bluesky_gate", "bluesky_send"}
           \/ SendsTo("bluesky") # <<>>) =>
          Len(chat) = 2 /\ Len(slack_returns) = 2

C10_Witness ==
  /\ pc = "done" /\ Len(slack_returns) = 2 /\ slack_returns[1] = None
  /\ SendsTo("slack")[2].thread_ts = None /\ SendsTo("bluesky") # <<>>

=============================================================================
